---- MODULE Spec2Model ----
(***************************************************************************)
(* SmartPatrol: route assignment and checkpoint-scan state machine.        *)
(*                                                                         *)
(* The persistent state is the Sequelize tables Route, Checkpoint,         *)
(* RouteAssignment and CheckpointScan.  Every Express handler is an async  *)
(* function: it runs until its next `await`, so each database call is one  *)
(* atomic step and other requests may run between two steps of a handler.  *)
(* reqs[p] holds the position and the local variables of the request that  *)
(* worker slot p is serving.                                               *)
(***************************************************************************)
EXTENDS Integers, Sequences, FiniteSets, TLC

VARIABLES users, routes, checkpoints, assignments, scans, reqs

vars == <<users, routes, checkpoints, assignments, scans, reqs>>

(* ------------------------------ bounds -------------------------------- *)
NumUsers == 2
NumRoutes == 2
NumCheckpoints == 3
MaxAssignments == 2
MaxScans == 3
MaxDeviations == 1
MaxFailingChecks == 8
NumProcs == 2

(* ------------------------- program constants -------------------------- *)
MAX_ROUTES_PER_USER == 5
DefaultScanRadius == 100

Users == 1..NumUsers
Routes == 1..NumRoutes
Checkpoints == 1..NumCheckpoints
Procs == 1..NumProcs
SeqProcs == {1}

Nil == 0
Statuses == {"assigned", "in_progress", "completed", "cancelled"}
ActiveStatuses == {"assigned", "in_progress"}

(* ------------------------------ helpers ------------------------------- *)
Range(s) == {s[i] : i \in DOMAIN s}

Includes(s, x) == \E i \in DOMAIN s : s[i] = x

RECURSIVE SortedSeq(_)
SortedSeq(S) ==
  IF S = {} THEN <<>>
  ELSE LET m == CHOOSE x \in S : \A y \in S : x <= y
       IN <<m>> \o SortedSeq(S \ {m})

(* Model.create() defaults of RouteAssignment plus the values assignRoute   *)
(* passes.                                                                  *)
NewAssignment(u, r) ==
  [userId |-> u, routeId |-> r, status |-> "assigned",
   completedCheckpoints |-> <<>>, isActive |-> TRUE,
   startDate |-> "assign_time", endDate |-> "null", notes |-> "assigned"]

(* instance.update(values): UPDATE ... SET <the keys of values> WHERE id.   *)
UpdateRow(rows, id, values) ==
  [rows EXCEPT ![id] =
     [f \in DOMAIN rows[id] |->
        IF f \in DOMAIN values THEN values[f] ELSE rows[id][f]]]

(* where: { isActive: true, status: { [Op.in]: ['assigned','in_progress'] }} *)
IsActiveAssignment(a) == a.isActive /\ a.status \in ActiveStatuses

RouteHolders(rows, r) ==
  {i \in DOMAIN rows : rows[i].routeId = r /\ IsActiveAssignment(rows[i])}

UserRouteHolders(rows, u, r) ==
  {i \in DOMAIN rows : rows[i].userId = u /\ rows[i].routeId = r
                       /\ IsActiveAssignment(rows[i])}

UserActiveAssignments(rows, u) ==
  {i \in DOMAIN rows : rows[i].userId = u /\ IsActiveAssignment(rows[i])}

(* ------------------------- request bookkeeping ------------------------ *)
IdleReq ==
  [op |-> "none", pc |-> "idle", userId |-> Nil, routeId |-> Nil, id |-> Nil,
   checkpointId |-> Nil, distance |-> Nil, files |-> FALSE,
   position |-> "none", qr |-> "none", fields |-> "none",
   forceComplete |-> FALSE, data |-> <<>>, assignment |-> <<>>,
   route |-> <<>>, res |-> "none", remaining |-> Nil]

Free(p) == reqs[p].pc \in {"idle", "done"}

At(p, op, pc) == reqs[p].op = op /\ reqs[p].pc = pc

(* res.status(...).json(...): the handler returns and its locals are      *)
(* dropped; what stays is the response and the request as it was sent      *)
(* (the ids it named, the position and the QR payload).                     *)
Done(req, r) ==
  [IdleReq EXCEPT !.op = req.op, !.pc = "done", !.res = r,
                  !.userId = req.userId, !.routeId = req.routeId,
                  !.id = req.id, !.checkpointId = req.checkpointId,
                  !.distance = req.distance, !.position = req.position,
                  !.qr = req.qr, !.fields = req.fields,
                  !.forceComplete = req.forceComplete]

Respond(p, r) == reqs' = [reqs EXCEPT ![p] = Done(reqs[p], r)]

Goto(p, pc) == reqs' = [reqs EXCEPT ![p].pc = pc]

(* the ids a request may name: every row and one id that has no row *)
UserIds == users \cup {NumUsers + 1}
RouteIds == DOMAIN routes \cup {Cardinality(DOMAIN routes) + 1}
CheckpointIds == DOMAIN checkpoints \cup {NumCheckpoints + 1}
AssignmentIds == 1..(Len(assignments) + 1)

InFlight(op) == Cardinality({p \in Procs : reqs[p].op = op /\ ~Free(p)})

(* ----------------------------- assignRoute ---------------------------- *)
assignRoute_begin(p, maxRows) ==
  /\ Free(p)
  /\ Len(assignments) + InFlight("assignRoute") < maxRows
  /\ \E u \in UserIds, r \in RouteIds :
       LET req == [IdleReq EXCEPT !.op = "assignRoute", !.userId = u,
                                  !.routeId = r]
       IN reqs' = [reqs EXCEPT ![p] =
            IF u \notin users
              THEN Done(req, "UserNotFound")
            ELSE IF r \notin DOMAIN routes
              THEN Done(req, "RouteNotFound")
            ELSE IF ~routes[r].isActive
              THEN Done(req, "RouteInactive")
            ELSE [req EXCEPT !.pc = "rule1"]]
  /\ UNCHANGED <<users, routes, checkpoints, assignments, scans>>

assignRoute_rule1(p) ==
  /\ At(p, "assignRoute", "rule1")
  /\ IF RouteHolders(assignments, reqs[p].routeId) # {}
       THEN Respond(p, "ROUTE_ALREADY_ASSIGNED")
       ELSE Goto(p, "rule2")
  /\ UNCHANGED <<users, routes, checkpoints, assignments, scans>>

assignRoute_rule2(p) ==
  /\ At(p, "assignRoute", "rule2")
  /\ IF UserRouteHolders(assignments, reqs[p].userId, reqs[p].routeId) # {}
       THEN Respond(p, "USER_ROUTE_DUPLICATE")
       ELSE Goto(p, "rule3")
  /\ UNCHANGED <<users, routes, checkpoints, assignments, scans>>

(* the limit test off by one: > for >= *)
maxRoutesReached_above(userActiveAssignments) ==
  Cardinality(userActiveAssignments) > MAX_ROUTES_PER_USER

(* userActiveAssignments.length >= MAX_ROUTES_PER_USER *)
maxRoutesReached(userActiveAssignments) ==
  Cardinality(userActiveAssignments) >= MAX_ROUTES_PER_USER

(* the row created ahead of the limit test *)
assignRoute_rule3_createFirst(p) ==
  /\ At(p, "assignRoute", "rule3")
  /\ IF maxRoutesReached(
          UserActiveAssignments(assignments, reqs[p].userId))
       THEN /\ Respond(p, "MAX_ROUTES_REACHED")
            /\ assignments' = Append(assignments,
                 NewAssignment(reqs[p].userId, reqs[p].routeId))
       ELSE Goto(p, "create") /\ UNCHANGED assignments
  /\ UNCHANGED <<users, routes, checkpoints, scans>>

assignRoute_rule3(p) ==
  /\ At(p, "assignRoute", "rule3")
  /\ IF maxRoutesReached(
          UserActiveAssignments(assignments, reqs[p].userId))
       THEN Respond(p, "MAX_ROUTES_REACHED")
       ELSE Goto(p, "create")
  /\ UNCHANGED <<users, routes, checkpoints, assignments, scans>>

assignRoute_create(p) ==
  /\ At(p, "assignRoute", "create")
  /\ assignments' =
       Append(assignments, NewAssignment(reqs[p].userId, reqs[p].routeId))
  /\ reqs' = [reqs EXCEPT ![p] =
       Done([reqs[p] EXCEPT !.id = Len(assignments) + 1], "OK")]
  /\ UNCHANGED <<users, routes, checkpoints, scans>>

assignRoute(p, maxRows) ==
  \/ assignRoute_begin(p, maxRows)
  \/ assignRoute_rule1(p)
  \/ assignRoute_rule2(p)
  \/ assignRoute_rule3(p)
  \/ assignRoute_create(p)

(* -------------------------- cancelAssignment -------------------------- *)
(* the status test left out *)
cancelAssignment_begin_anyStatus(p) ==
  /\ Free(p)
  /\ \E id \in AssignmentIds :
       LET req == [IdleReq EXCEPT !.op = "cancelAssignment", !.id = id]
       IN reqs' = [reqs EXCEPT ![p] =
            IF id \notin DOMAIN assignments \/ ~assignments[id].isActive
              THEN Done(req, "AssignmentNotFound")
            ELSE [req EXCEPT !.pc = "update",
                             !.assignment = assignments[id]]]
  /\ UNCHANGED <<users, routes, checkpoints, assignments, scans>>

cancelAssignment_begin(p) ==
  /\ Free(p)
  /\ \E id \in AssignmentIds :
       LET req == [IdleReq EXCEPT !.op = "cancelAssignment", !.id = id]
       IN reqs' = [reqs EXCEPT ![p] =
            IF id \notin DOMAIN assignments \/ ~assignments[id].isActive
              THEN Done(req, "AssignmentNotFound")
            ELSE IF assignments[id].status \notin ActiveStatuses
              THEN Done(req, "InvalidStateTransition")
            ELSE [req EXCEPT !.pc = "update",
                             !.assignment = assignments[id]]]
  /\ UNCHANGED <<users, routes, checkpoints, assignments, scans>>

cancelAssignment_update(p) ==
  /\ At(p, "cancelAssignment", "update")
  /\ assignments' = UpdateRow(assignments, reqs[p].id,
       [status |-> "cancelled", endDate |-> "now", notes |-> "cancelled"])
  /\ Respond(p, "OK")
  /\ UNCHANGED <<users, routes, checkpoints, scans>>

cancelAssignment(p) ==
  \/ cancelAssignment_begin(p)
  \/ cancelAssignment_update(p)

(* ----------------------------- startRoute ------------------------------ *)
(* the status filter of the query left out *)
startRoute_begin_anyStatus(p) ==
  /\ Free(p)
  /\ \E id \in AssignmentIds :
       LET req == [IdleReq EXCEPT !.op = "startRoute", !.id = id]
       IN reqs' = [reqs EXCEPT ![p] =
            IF id \in DOMAIN assignments /\ assignments[id].isActive
              THEN [req EXCEPT !.pc = "update", !.assignment = assignments[id]]
              ELSE Done(req, "NotInAssignedStatus")]
  /\ UNCHANGED <<users, routes, checkpoints, assignments, scans>>

startRoute_begin(p) ==
  /\ Free(p)
  /\ \E id \in AssignmentIds :
       LET req == [IdleReq EXCEPT !.op = "startRoute", !.id = id]
       IN reqs' = [reqs EXCEPT ![p] =
            IF id \in DOMAIN assignments /\ assignments[id].isActive
               /\ assignments[id].status = "assigned"
              THEN [req EXCEPT !.pc = "update", !.assignment = assignments[id]]
              ELSE Done(req, "NotInAssignedStatus")]
  /\ UNCHANGED <<users, routes, checkpoints, assignments, scans>>

startRoute_update(p) ==
  /\ At(p, "startRoute", "update")
  /\ assignments' = UpdateRow(assignments, reqs[p].id,
       [status |-> "in_progress", startDate |-> "start_time",
        notes |-> "started"])
  /\ Respond(p, "OK")
  /\ UNCHANGED <<users, routes, checkpoints, scans>>

startRoute(p) ==
  \/ startRoute_begin(p)
  \/ startRoute_update(p)

(* ---------------------------- completeRoute ---------------------------- *)
completeRoute_begin(p) ==
  /\ Free(p)
  /\ \E id \in AssignmentIds, force \in BOOLEAN :
       LET req == [IdleReq EXCEPT !.op = "completeRoute", !.id = id,
                                  !.forceComplete = force]
       IN reqs' = [reqs EXCEPT ![p] =
            IF id \notin DOMAIN assignments \/ ~assignments[id].isActive
              THEN Done(req, "AssignmentNotFound")
            ELSE IF assignments[id].status = "completed"
              THEN Done(req, "AlreadyCompleted")
            ELSE [req EXCEPT !.pc = "route", !.assignment = assignments[id]]]
  /\ UNCHANGED <<users, routes, checkpoints, assignments, scans>>

(* forceComplete ignored *)
incompleteCheckpoints_noForce(completed, total, forceComplete) ==
  completed < total

(* completedCheckpoints < totalCheckpoints && !forceComplete *)
incompleteCheckpoints(completed, total, forceComplete) ==
  completed < total /\ ~forceComplete

(* route?.checkpoints?.length || 0 against completedCheckpoints?.length;    *)
(* the error answer carries remainingCheckpoints.                            *)
completeRoute_route(p) ==
  /\ At(p, "completeRoute", "route")
  /\ LET r == reqs[p].assignment.routeId
         totalCheckpoints ==
           IF r \in DOMAIN routes THEN Len(routes[r].checkpoints) ELSE 0
         completedCheckpoints == Len(reqs[p].assignment.completedCheckpoints)
     IN IF incompleteCheckpoints(completedCheckpoints, totalCheckpoints,
                                 reqs[p].forceComplete)
          THEN reqs' = [reqs EXCEPT ![p] =
                 [Done(reqs[p], "INCOMPLETE_CHECKPOINTS") EXCEPT
                    !.remaining = totalCheckpoints - completedCheckpoints]]
          ELSE Goto(p, "update")
  /\ UNCHANGED <<users, routes, checkpoints, assignments, scans>>

completeRoute_update(p) ==
  /\ At(p, "completeRoute", "update")
  /\ assignments' = UpdateRow(assignments, reqs[p].id,
       [status |-> "completed", endDate |-> "now",
        notes |-> IF reqs[p].forceComplete THEN "force_completed"
                                            ELSE "completed"])
  /\ Respond(p, "OK")
  /\ UNCHANGED <<users, routes, checkpoints, scans>>

completeRoute(p) ==
  \/ completeRoute_begin(p)
  \/ completeRoute_route(p)
  \/ completeRoute_update(p)

(* --------------------------- deleteAssignment -------------------------- *)
(* the in_progress test left out *)
deleteAssignment_begin_anyStatus(p) ==
  /\ Free(p)
  /\ \E id \in AssignmentIds :
       LET req == [IdleReq EXCEPT !.op = "deleteAssignment", !.id = id]
       IN reqs' = [reqs EXCEPT ![p] =
            IF id \notin DOMAIN assignments \/ ~assignments[id].isActive
              THEN Done(req, "AssignmentNotFound")
            ELSE [req EXCEPT !.pc = "update", !.assignment = assignments[id]]]
  /\ UNCHANGED <<users, routes, checkpoints, assignments, scans>>

deleteAssignment_begin(p) ==
  /\ Free(p)
  /\ \E id \in AssignmentIds :
       LET req == [IdleReq EXCEPT !.op = "deleteAssignment", !.id = id]
       IN reqs' = [reqs EXCEPT ![p] =
            IF id \notin DOMAIN assignments \/ ~assignments[id].isActive
              THEN Done(req, "AssignmentNotFound")
            ELSE IF assignments[id].status = "in_progress"
              THEN Done(req, "CannotDeleteInProgress")
            ELSE [req EXCEPT !.pc = "update", !.assignment = assignments[id]]]
  /\ UNCHANGED <<users, routes, checkpoints, assignments, scans>>

deleteAssignment_update(p) ==
  /\ At(p, "deleteAssignment", "update")
  /\ assignments' = UpdateRow(assignments, reqs[p].id, [isActive |-> FALSE])
  /\ Respond(p, "OK")
  /\ UNCHANGED <<users, routes, checkpoints, scans>>

deleteAssignment(p) ==
  \/ deleteAssignment_begin(p)
  \/ deleteAssignment_update(p)

(* --------------------------- updateAssignment -------------------------- *)
Absent == "absent"

allowedFields == {"startDate", "endDate", "notes", "status"}

(* the request bodies tried: routeId and userId select the conflict check, *)
(* the allowed fields are written.                                          *)
UpdateBodies ==
  [routeId : {Nil} \cup RouteIds, userId : {Nil},
   status : {Absent} \cup Statuses, startDate : {Absent},
   endDate : {Absent}, notes : {Absent}]

filteredData(updateData) ==
  [f \in {k \in allowedFields : updateData[k] # Absent} |-> updateData[f]]

updateAssignment_begin(p) ==
  /\ Free(p)
  /\ \E id \in AssignmentIds, updateData \in UpdateBodies :
       LET req == [IdleReq EXCEPT !.op = "updateAssignment", !.id = id,
                                  !.data = updateData]
           newRouteId == IF updateData.routeId # Nil THEN updateData.routeId
                         ELSE assignments[id].routeId
       IN reqs' = [reqs EXCEPT ![p] =
            IF id \notin DOMAIN assignments \/ ~assignments[id].isActive
              THEN Done(req, "AssignmentNotFound")
            ELSE IF (updateData.routeId # Nil \/ updateData.userId # Nil)
                    /\ newRouteId # assignments[id].routeId
              THEN [req EXCEPT !.pc = "conflict",
                               !.assignment = assignments[id]]
            ELSE [req EXCEPT !.pc = "update", !.assignment = assignments[id]]]
  /\ UNCHANGED <<users, routes, checkpoints, assignments, scans>>

updateAssignment_conflict(p) ==
  /\ At(p, "updateAssignment", "conflict")
  /\ IF RouteHolders(assignments, reqs[p].data.routeId) \ {reqs[p].id} # {}
       THEN Respond(p, "ROUTE_ALREADY_ASSIGNED")
       ELSE Goto(p, "update")
  /\ UNCHANGED <<users, routes, checkpoints, assignments, scans>>

updateAssignment_update(p) ==
  /\ At(p, "updateAssignment", "update")
  /\ assignments' =
       UpdateRow(assignments, reqs[p].id, filteredData(reqs[p].data))
  /\ Respond(p, "OK")
  /\ UNCHANGED <<users, routes, checkpoints, scans>>

updateAssignment(p) ==
  \/ updateAssignment_begin(p)
  \/ updateAssignment_conflict(p)
  \/ updateAssignment_update(p)

(* ------------------------------ scanQRCode ----------------------------- *)
(* The Haversine distance between userLatLong and the checkpoint is a pure  *)
(* function of the request; the request is described by the distance it     *)
(* yields.  The distance is a fraction of metres: the model counts it in     *)
(* tenths of a metre, and the radius in metres as the column does.           *)
Metres(m) == 10 * m

(* Math.round(distance), in metres *)
Round(distance) == (distance + 5) \div 10

(* 99.6 m, 100.0 m and 100.1 m for the default radius *)
Distances ==
  {Metres(DefaultScanRadius) - 4, Metres(DefaultScanRadius),
   Metres(DefaultScanRadius) + 1}

(* checkpoint.scanRadius || 100 *)
scanRadius(checkpoint) ==
  IF checkpoint.scanRadius # 0 THEN checkpoint.scanRadius
  ELSE DefaultScanRadius

(* the geofence test left out *)
isWithinRadius_always(distance, radius) == TRUE

(* the rounded distance compared: Math.round(distance) <= scanRadius *)
isWithinRadius_rounded(distance, radius) == Metres(Round(distance)) <= radius

(* the boundary excluded: < for <= *)
isWithinRadius_below(distance, radius) == distance < radius

(* distance <= scanRadius *)
isWithinRadius(distance, radius) == distance <= radius

(* The request bodies tried.  A well-formed request names an existing      *)
(* assignment and its owner and route, an existing checkpoint, a position   *)
(* inside the radius and no files; a request departs from that in at most   *)
(* maxDeviations of its fields.                                             *)
AssignmentDeviations(id, u, r) ==
  IF id \notin DOMAIN assignments THEN 1
  ELSE (IF u # assignments[id].userId THEN 1 ELSE 0)
       + (IF r # assignments[id].routeId THEN 1 ELSE 0)

BodyDeviations(c, d, files, position, qr, fields) ==
  (IF fields = "missing" THEN 1 ELSE 0)
  + (IF position = "invalid" THEN 1 ELSE 0)
  + (IF qr = "malformed" THEN 1 ELSE 0)
  + (IF c \notin DOMAIN checkpoints THEN 1 ELSE 0)
  + (IF d > Metres(DefaultScanRadius) THEN 1 ELSE 0)
  + (IF files THEN 1 ELSE 0)

(* The required-fields test, validateLatLong, JSON.parse and the QR         *)
(* structure test, Checkpoint.findOne and the geofence test: everything up   *)
(* to RouteAssignment.findOne.                                               *)
scanQRCode_begin(p, maxDeviations) ==
  /\ Free(p)
  /\ Len(scans) + InFlight("scanQRCode") < MaxScans
  /\ \E id \in AssignmentIds, u \in UserIds, r \in RouteIds :
       /\ AssignmentDeviations(id, u, r) <= maxDeviations
       /\ id \notin DOMAIN assignments => (u = 1 /\ r = 1)
       /\ \E c \in CheckpointIds, d \in Distances, files \in BOOLEAN,
             position \in {"valid", "invalid"},
             qr \in {"checkpoint", "malformed"},
             fields \in {"present", "missing"} :
            LET req == [IdleReq EXCEPT !.op = "scanQRCode", !.userId = u,
                          !.id = id, !.routeId = r, !.checkpointId = c,
                          !.distance = d, !.files = files,
                          !.position = position, !.qr = qr,
                          !.fields = fields]
            IN /\ AssignmentDeviations(id, u, r)
                    + BodyDeviations(c, d, files, position, qr, fields)
                    <= maxDeviations
               /\ reqs' = [reqs EXCEPT ![p] =
                    IF fields = "missing"
                      THEN Done(req, "RequiredFieldsMissing")
                    ELSE IF position = "invalid"
                      THEN Done(req, "InvalidPosition")
                    ELSE IF qr = "malformed"
                      THEN Done(req, "MalformedQRCode")
                    ELSE IF c \notin DOMAIN checkpoints
                            \/ ~checkpoints[c].isActive
                      THEN Done(req, "CheckpointNotFound")
                    ELSE IF ~isWithinRadius(
                                d, Metres(scanRadius(checkpoints[c])))
                      THEN [Done(req, "OutOfRange") EXCEPT
                              !.data = <<Round(d),
                                         scanRadius(checkpoints[c])>>]
                    ELSE [req EXCEPT !.pc = "assignment"]]
  /\ UNCHANGED <<users, routes, checkpoints, assignments, scans>>

(* RouteAssignment.findOne({ id, userId, isActive: true, in_progress })     *)
scanQRCode_assignment(p) ==
  /\ At(p, "scanQRCode", "assignment")
  /\ LET id == reqs[p].id
     IN IF id \in DOMAIN assignments
           /\ assignments[id].userId = reqs[p].userId
           /\ assignments[id].isActive
           /\ assignments[id].status = "in_progress"
          THEN reqs' = [reqs EXCEPT ![p].pc = "route",
                                    ![p].assignment = assignments[id]]
          ELSE Respond(p, "NoActiveAssignment")
  /\ UNCHANGED <<users, routes, checkpoints, assignments, scans>>

(* the already-scanned test switched off *)
alreadyScanned_never(completedCheckpoints, checkpointId) == FALSE

(* completedCheckpoints.includes(checkpoint.id) *)
alreadyScanned(completedCheckpoints, checkpointId) ==
  Includes(completedCheckpoints, checkpointId)

(* the CheckpointScan row written ahead of the already-scanned test *)
scanQRCode_route_recording(p) ==
  /\ At(p, "scanQRCode", "route")
  /\ LET r == reqs[p].assignment.routeId
         row == [userId |-> reqs[p].userId,
                 checkpointId |-> reqs[p].checkpointId,
                 routeAssignmentId |-> reqs[p].id,
                 routeId |-> reqs[p].routeId, distance |-> Round(reqs[p].distance),
                 scanRadius |-> DefaultScanRadius, isValid |-> TRUE]
     IN IF r \notin DOMAIN routes
          THEN Respond(p, "RouteNotFound") /\ UNCHANGED scans
        ELSE IF ~Includes(routes[r].checkpoints, reqs[p].checkpointId)
          THEN Respond(p, "CheckpointNotInRoute") /\ UNCHANGED scans
        ELSE IF alreadyScanned(reqs[p].assignment.completedCheckpoints,
                               reqs[p].checkpointId)
          THEN Respond(p, "AlreadyScanned") /\ scans' = Append(scans, row)
        ELSE /\ reqs' = [reqs EXCEPT
                  ![p].pc = IF reqs[p].files THEN "upload" ELSE "create",
                  ![p].route = routes[r].checkpoints]
             /\ UNCHANGED scans
  /\ UNCHANGED <<users, routes, checkpoints, assignments>>

(* the already-scanned test ahead of the membership test *)
scanQRCode_route_swapped(p) ==
  /\ At(p, "scanQRCode", "route")
  /\ LET r == reqs[p].assignment.routeId
     IN IF r \notin DOMAIN routes
          THEN Respond(p, "RouteNotFound")
        ELSE IF alreadyScanned(reqs[p].assignment.completedCheckpoints,
                               reqs[p].checkpointId)
          THEN Respond(p, "AlreadyScanned")
        ELSE IF ~Includes(routes[r].checkpoints, reqs[p].checkpointId)
          THEN Respond(p, "CheckpointNotInRoute")
        ELSE reqs' = [reqs EXCEPT
               ![p].pc = IF reqs[p].files THEN "upload" ELSE "create",
               ![p].route = routes[r].checkpoints]
  /\ UNCHANGED <<users, routes, checkpoints, assignments, scans>>

(* Route.findByPk, the membership test and the already-scanned test; with   *)
(* files attached the next await is the upload, else CheckpointScan.create. *)
scanQRCode_route(p) ==
  /\ At(p, "scanQRCode", "route")
  /\ LET r == reqs[p].assignment.routeId
     IN IF r \notin DOMAIN routes
          THEN Respond(p, "RouteNotFound")
        ELSE IF ~Includes(routes[r].checkpoints, reqs[p].checkpointId)
          THEN Respond(p, "CheckpointNotInRoute")
        ELSE IF alreadyScanned(reqs[p].assignment.completedCheckpoints,
                               reqs[p].checkpointId)
          THEN Respond(p, "AlreadyScanned")
        ELSE reqs' = [reqs EXCEPT
               ![p].pc = IF reqs[p].files THEN "upload" ELSE "create",
               ![p].route = routes[r].checkpoints]
  /\ UNCHANGED <<users, routes, checkpoints, assignments, scans>>

(* the CheckpointScan row written before the files are stored *)
scanQRCode_upload_afterCreate(p) ==
  /\ At(p, "scanQRCode", "upload")
  /\ \E stored \in BOOLEAN :
       IF stored
         THEN Goto(p, "create") /\ UNCHANGED scans
         ELSE /\ Respond(p, "MediaUploadFailed")
              /\ scans' = Append(scans,
                   [userId |-> reqs[p].userId,
                    checkpointId |-> reqs[p].checkpointId,
                    routeAssignmentId |-> reqs[p].id,
                    routeId |-> reqs[p].routeId,
                    distance |-> Round(reqs[p].distance),
                    scanRadius |-> DefaultScanRadius, isValid |-> TRUE])
  /\ UNCHANGED <<users, routes, checkpoints, assignments>>

(* Promise.all(uploadFileToS3(...)): the store accepts or rejects.          *)
scanQRCode_upload(p) ==
  /\ At(p, "scanQRCode", "upload")
  /\ \E stored \in BOOLEAN :
       IF stored THEN Goto(p, "create") ELSE Respond(p, "MediaUploadFailed")
  /\ UNCHANGED <<users, routes, checkpoints, assignments, scans>>

scanQRCode_create(p) ==
  /\ At(p, "scanQRCode", "create")
  /\ scans' = Append(scans,
       [userId |-> reqs[p].userId, checkpointId |-> reqs[p].checkpointId,
        routeAssignmentId |-> reqs[p].id, routeId |-> reqs[p].routeId,
        distance |-> Round(reqs[p].distance),
        scanRadius |-> scanRadius(checkpoints[reqs[p].checkpointId]),
        isValid |-> TRUE])
  /\ Goto(p, "update")
  /\ UNCHANGED <<users, routes, checkpoints, assignments>>

newCompletedCheckpoints(completedCheckpoints, checkpointId) ==
  Append(completedCheckpoints, checkpointId)

(* completion decided by the route's last checkpoint being the one scanned *)
isRouteCompleted_last(completed, routeCheckpoints) ==
  completed[Len(completed)] = routeCheckpoints[Len(routeCheckpoints)]

(* newCompletedCheckpoints.length === totalCheckpoints *)
isRouteCompleted(completed, routeCheckpoints) ==
  Len(completed) = Len(routeCheckpoints)

scanUpdateData(completed, routeCheckpoints) ==
  IF isRouteCompleted(completed, routeCheckpoints)
    THEN [completedCheckpoints |-> completed, status |-> "completed",
          endDate |-> "now", notes |-> "completed"]
    ELSE [completedCheckpoints |-> completed, status |-> "in_progress"]

scanQRCode_update(p) ==
  /\ At(p, "scanQRCode", "update")
  /\ assignments' = UpdateRow(assignments, reqs[p].id,
       scanUpdateData(
         newCompletedCheckpoints(reqs[p].assignment.completedCheckpoints,
                                 reqs[p].checkpointId),
         reqs[p].route))
  /\ Respond(p, "OK")
  /\ UNCHANGED <<users, routes, checkpoints, scans>>

(* assignment.update rejects (the connection is lost, the statement times   *)
(* out): the catch block answers 500; the CheckpointScan row is written.     *)
scanQRCode_updateFails(p) ==
  /\ At(p, "scanQRCode", "update")
  /\ Respond(p, "FailedToScan")
  /\ UNCHANGED <<users, routes, checkpoints, assignments, scans>>

scanQRCode(p) ==
  \/ scanQRCode_begin(p, MaxDeviations)
  \/ scanQRCode_assignment(p)
  \/ scanQRCode_route(p)
  \/ scanQRCode_upload(p)
  \/ scanQRCode_create(p)
  \/ scanQRCode_update(p)

(* ------------------------------ updateRoute ---------------------------- *)
(* the checkpoint lists tried as the request's `checkpoints`                *)
CheckpointLists ==
  {SortedSeq(S) : S \in (SUBSET Checkpoints) \ {{}}}
    \cup {<<1, 1>>, <<NumCheckpoints + 1>>}

(* validateCheckpointIds: no duplicates, every id found and active; the     *)
(* stored list is the ids of the rows Checkpoint.findAll returned.          *)
validateCheckpointIds(checkpointIds) ==
  /\ Cardinality(Range(checkpointIds)) = Len(checkpointIds)
  /\ \A i \in DOMAIN checkpointIds :
       /\ checkpointIds[i] \in DOMAIN checkpoints
       /\ checkpoints[checkpointIds[i]].isActive

updateRoute_begin(p) ==
  /\ Free(p)
  /\ \E r \in RouteIds, list \in CheckpointLists :
       LET req == [IdleReq EXCEPT !.op = "updateRoute", !.routeId = r,
                                  !.data = list]
       IN reqs' = [reqs EXCEPT ![p] =
            IF r \notin DOMAIN routes \/ ~routes[r].isActive
              THEN Done(req, "RouteNotFound")
              ELSE [req EXCEPT !.pc = "validate"]]
  /\ UNCHANGED <<users, routes, checkpoints, assignments, scans>>

updateRoute_validate(p) ==
  /\ At(p, "updateRoute", "validate")
  /\ IF validateCheckpointIds(reqs[p].data)
       THEN Goto(p, "update")
       ELSE Respond(p, "CheckpointValidationFailed")
  /\ UNCHANGED <<users, routes, checkpoints, assignments, scans>>

updateRoute_update(p) ==
  /\ At(p, "updateRoute", "update")
  /\ routes' = [routes EXCEPT ![reqs[p].routeId].checkpoints =
                  SortedSeq(Range(reqs[p].data))]
  /\ Respond(p, "OK")
  /\ UNCHANGED <<users, checkpoints, assignments, scans>>

updateRoute(p) ==
  \/ updateRoute_begin(p)
  \/ updateRoute_validate(p)
  \/ updateRoute_update(p)

(* ------------------------------ deleteRoute ---------------------------- *)
deleteRoute_begin(p) ==
  /\ Free(p)
  /\ \E r \in RouteIds :
       LET req == [IdleReq EXCEPT !.op = "deleteRoute", !.routeId = r]
       IN reqs' = [reqs EXCEPT ![p] =
            IF r \notin DOMAIN routes \/ ~routes[r].isActive
              THEN Done(req, "RouteNotFound")
              ELSE [req EXCEPT !.pc = "update"]]
  /\ UNCHANGED <<users, routes, checkpoints, assignments, scans>>

deleteRoute_update(p) ==
  /\ At(p, "deleteRoute", "update")
  /\ routes' = [routes EXCEPT ![reqs[p].routeId].isActive = FALSE]
  /\ Respond(p, "OK")
  /\ UNCHANGED <<users, checkpoints, assignments, scans>>

deleteRoute(p) ==
  \/ deleteRoute_begin(p)
  \/ deleteRoute_update(p)

(* ------------------------------- Init --------------------------------- *)
(* A seeded database: the officers us, the routes rs, each with every      *)
(* checkpoint, the assignment rows given, no scan yet and no request in    *)
(* flight.                                                                  *)
Database(us, rs, rows) ==
  /\ users = us
  /\ routes = [r \in rs |->
       [checkpoints |-> SortedSeq(Checkpoints), isActive |-> TRUE]]
  /\ checkpoints = [c \in Checkpoints |->
       [isActive |-> TRUE, scanRadius |-> DefaultScanRadius]]
  /\ assignments = rows
  /\ scans = <<>>
  /\ reqs = [p \in Procs |-> IdleReq]

Init == Database(Users, Routes, <<>>)

(* One request at a time: every handler runs to its response before the   *)
(* next request is taken.                                                   *)
Next ==
  \E p \in SeqProcs :
    \/ assignRoute(p, MaxAssignments)
    \/ startRoute(p)
    \/ scanQRCode(p)
    \/ completeRoute(p)
    \/ cancelAssignment(p)
    \/ deleteAssignment(p)
    \/ updateAssignment(p)
    \/ updateRoute(p)
    \/ deleteRoute(p)

Spec == Init /\ [][Next]_vars

(* The assignment lifecycle of one officer without scans, one request at   *)
(* a time.                                                                  *)
InitAssign == Database({1}, Routes, <<>>)

NextAssign ==
  \E p \in SeqProcs :
    \/ assignRoute(p, MaxAssignments)
    \/ startRoute(p)
    \/ completeRoute(p)
    \/ cancelAssignment(p)
    \/ deleteAssignment(p)
    \/ updateAssignment(p)

SpecAssign == InitAssign /\ [][NextAssign]_vars

(* Assignment requests of several officers served concurrently.            *)
NextAssignRace == \E p \in Procs : assignRoute(p, MaxAssignments)

SpecAssignRace == Init /\ [][NextAssignRace]_vars

(* The per-user limit: officer 1 already holds MAX_ROUTES_PER_USER - 1     *)
(* assignments (the state after that many assignRoute requests), and there  *)
(* are MAX_ROUTES_PER_USER + 1 routes.                                      *)
CapRoutes == 1..(MAX_ROUTES_PER_USER + 1)

CapSeed == [i \in 1..(MAX_ROUTES_PER_USER - 1) |-> NewAssignment(1, i)]

InitCap == Database({1}, CapRoutes, CapSeed)

NextCap ==
  \E p \in SeqProcs :
    \/ assignRoute(p, Len(CapSeed) + MaxAssignments)
    \/ cancelAssignment(p)

SpecCap == InitCap /\ [][NextCap]_vars

(* Assignment requests against routes that may be soft-deleted, one        *)
(* request at a time.                                                        *)
NextAssignFrame ==
  \E p \in SeqProcs :
    \/ assignRoute(p, Len(CapSeed) + MaxAssignments)
    \/ deleteRoute(p)

SpecAssignFrame == InitCap /\ [][NextAssignFrame]_vars

NextCapRace == \E p \in Procs : assignRoute(p, Len(CapSeed) + MaxAssignments)

SpecCapRace == InitCap /\ [][NextCapRace]_vars

(* Scanning: officer 1 has started route 1 (the state after assignRoute    *)
(* and startRoute).                                                         *)
ScanSeed ==
  <<[NewAssignment(1, 1) EXCEPT !.status = "in_progress",
                                !.startDate = "start_time",
                                !.notes = "started"]>>

InitScan == Database({1}, {1}, ScanSeed)

NextScan ==
  \E p \in SeqProcs :
    \/ scanQRCode(p)
    \/ updateRoute(p)

SpecScan == InitScan /\ [][NextScan]_vars

NextScanOrder == \E p \in SeqProcs : scanQRCode(p)

SpecScanOrder == InitScan /\ [][NextScanOrder]_vars

(* The lifecycle of one started assignment: well-formed scans without      *)
(* files, start, complete, cancel, delete and the generic update, one       *)
(* request at a time.                                                        *)
NextLifecycle ==
  \E p \in SeqProcs :
    \/ scanQRCode_begin(p, 0)
    \/ scanQRCode_assignment(p)
    \/ scanQRCode_route(p)
    \/ scanQRCode_create(p)
    \/ scanQRCode_update(p)
    \/ startRoute(p)
    \/ completeRoute(p)
    \/ cancelAssignment(p)
    \/ deleteAssignment(p)
    \/ updateAssignment(p)

SpecLifecycle == InitScan /\ [][NextLifecycle]_vars

(* Scan requests that may fail any number of the checks at once, one       *)
(* request at a time.  Officer 1 was assigned route 1, the assignment was   *)
(* cancelled, route 1 was assigned again and started, the first and the     *)
(* last checkpoint were scanned and then updateRoute took the last          *)
(* checkpoint off the route.                                                 *)
ChecksSeed ==
  <<[NewAssignment(1, 1) EXCEPT !.status = "cancelled", !.endDate = "now",
                                !.notes = "cancelled"],
    [NewAssignment(1, 1) EXCEPT !.status = "in_progress",
                                !.startDate = "start_time",
                                !.notes = "started",
                                !.completedCheckpoints = <<1, NumCheckpoints>>]>>

ChecksScanRow(c) ==
  [userId |-> 1, checkpointId |-> c, routeAssignmentId |-> 2, routeId |-> 1,
   distance |-> DefaultScanRadius, scanRadius |-> DefaultScanRadius,
   isValid |-> TRUE]

InitChecks ==
  /\ users = {1}
  /\ routes = [r \in {1} |->
       [checkpoints |-> SortedSeq(Checkpoints \ {NumCheckpoints}),
        isActive |-> TRUE]]
  /\ checkpoints = [c \in Checkpoints |->
       [isActive |-> TRUE, scanRadius |-> DefaultScanRadius]]
  /\ assignments = ChecksSeed
  /\ scans = <<ChecksScanRow(1), ChecksScanRow(NumCheckpoints)>>
  /\ reqs = [p \in Procs |-> IdleReq]

NextScanChecks ==
  \E p \in SeqProcs :
    \/ scanQRCode_begin(p, MaxFailingChecks)
    \/ scanQRCode_assignment(p)
    \/ scanQRCode_route(p)
    \/ scanQRCode_upload(p)
    \/ scanQRCode_create(p)
    \/ scanQRCode_update(p)

SpecScanChecks == InitChecks /\ [][NextScanChecks]_vars

(* Well-formed scan requests without files, served concurrently.           *)
NextScanRace ==
  \E p \in Procs :
    \/ scanQRCode_begin(p, 0)
    \/ scanQRCode_assignment(p)
    \/ scanQRCode_route(p)
    \/ scanQRCode_create(p)
    \/ scanQRCode_update(p)

SpecScanRace == InitScan /\ [][NextScanRace]_vars

(* The officer's well-formed scans without files on the first worker and   *)
(* the supervisor's cancel and complete requests on the last, served         *)
(* concurrently.                                                             *)
NextScanCancelRace ==
  \/ \E p \in SeqProcs :
       \/ scanQRCode_begin(p, 0)
       \/ scanQRCode_assignment(p)
       \/ scanQRCode_route(p)
       \/ scanQRCode_create(p)
       \/ scanQRCode_update(p)
  \/ \E p \in {NumProcs} :
       \/ cancelAssignment(p)
       \/ completeRoute(p)

SpecScanCancelRace == InitScan /\ [][NextScanCancelRace]_vars

(* ---------------------- getDetailedCheckpointInfo ---------------------- *)
(* Array.prototype.indexOf: the zero-based place of the first occurrence,   *)
(* -1 when there is none.                                                    *)
indexOf(s, x) ==
  IF Includes(s, x)
    THEN (CHOOSE i \in DOMAIN s : s[i] = x /\ \A j \in 1..(i - 1) : s[j] # x)
         - 1
    ELSE -1

(* status.isNext of one checkpoint of the route *)
isNext(route, completedCheckpointIds, checkpointId) ==
  LET isCompleted == Includes(completedCheckpointIds, checkpointId)
      order == indexOf(route, checkpointId) + 1
  IN ~isCompleted /\ Len(completedCheckpointIds) = order - 1

(* The checkpoints Checkpoint.findAll returns for the route, each with its  *)
(* order and status.                                                         *)
enhancedCheckpoints(route, completedCheckpointIds) ==
  { [id |-> c,
     order |-> indexOf(route, c) + 1,
     isCompleted |-> Includes(completedCheckpointIds, c),
     isPending |-> ~Includes(completedCheckpointIds, c),
     isNext |-> isNext(route, completedCheckpointIds, c)]
    : c \in Range(route) \cap DOMAIN checkpoints }

(* Scans one at a time against a database whose writes may fail.           *)
NextScanFail ==
  \E p \in SeqProcs :
    \/ scanQRCode(p)
    \/ scanQRCode_updateFails(p)

SpecScanFail == InitScan /\ [][NextScanFail]_vars

(* =============================== claims =============================== *)
NoDuplicates(s) == Len(s) = Cardinality(Range(s))

FinishedWith(p, op, r) ==
  reqs[p].op = op /\ reqs[p].pc = "done" /\ reqs[p].res = r

(* C1: of two assignRoute requests for the same route by different users,  *)
(* the route having no assignment but theirs, exactly one succeeds and the *)
(* other is answered ROUTE_ALREADY_ASSIGNED; they never both succeed.      *)
C1_ExactlyOneSucceeds ==
  \A p, q \in Procs :
    ( /\ p # q
      /\ reqs[p].op = "assignRoute" /\ reqs[p].pc = "done"
      /\ reqs[q].op = "assignRoute" /\ reqs[q].pc = "done"
      /\ reqs[p].routeId = reqs[q].routeId
      /\ reqs[p].userId # reqs[q].userId
      /\ reqs[q].userId \in users
      /\ reqs[p].res = "OK"
      /\ \A i \in DOMAIN assignments :
           assignments[i].routeId = reqs[p].routeId
             => i \in {reqs[p].id, reqs[q].id} )
    => reqs[q].res = "ROUTE_ALREADY_ASSIGNED"

(* C2: every route has at most one active assignment whose status is       *)
(* assigned or in_progress.                                                 *)
C2_OneActivePerRoute ==
  \A r \in DOMAIN routes : Cardinality(RouteHolders(assignments, r)) <= 1

(* C3: no user holds more than MAX_ROUTES_PER_USER active assignments in   *)
(* assigned or in_progress, also under concurrent assignRoute requests.     *)
C3_UserCap ==
  \A u \in users :
    Cardinality(UserActiveAssignments(assignments, u)) <= MAX_ROUTES_PER_USER

(* C4: for a user holding exactly MAX_ROUTES_PER_USER active assignments,  *)
(* assignRoute for a further unassigned active route is answered            *)
(* MAX_ROUTES_REACHED and creates nothing; once one of them was cancelled   *)
(* the same request succeeds and creates the assignment.                    *)
C4_Step ==
  \A p \in Procs :
    (reqs[p].op = "assignRoute" /\ reqs[p].pc # "done"
     /\ reqs'[p].pc = "done")
    => LET u == reqs[p].userId
           r == reqs[p].routeId
           held == Cardinality(UserActiveAssignments(assignments, u))
           unassigned == RouteHolders(assignments, r) = {}
           cancelledOne == \E i \in DOMAIN assignments :
                             /\ assignments[i].userId = u
                             /\ assignments[i].status = "cancelled"
       IN /\ (held = MAX_ROUTES_PER_USER /\ unassigned)
               => /\ reqs'[p].res = "MAX_ROUTES_REACHED"
                  /\ assignments' = assignments
          /\ (held = MAX_ROUTES_PER_USER - 1 /\ unassigned /\ cancelledOne)
               => /\ reqs'[p].res = "OK"
                  /\ assignments' = Append(assignments, NewAssignment(u, r))

C4_CapThenRetry == [][C4_Step]_vars

C4_Witness ==
  /\ FinishedWith(1, "assignRoute", "OK")
  /\ Cardinality(UserActiveAssignments(assignments, 1)) = MAX_ROUTES_PER_USER
  /\ \E i \in DOMAIN assignments : assignments[i].status = "cancelled"

(* C5: no write of an assignment's status moves it backward along          *)
(* assigned -> in_progress -> (completed | cancelled).                      *)
StatusRank(st) ==
  IF st = "assigned" THEN 0 ELSE IF st = "in_progress" THEN 1 ELSE 2

C5_NoBackward ==
  [][\A i \in DOMAIN assignments :
       StatusRank(assignments'[i].status) >= StatusRank(assignments[i].status)
    ]_vars

(* C6: once an assignment is completed or cancelled, no startRoute, scan,  *)
(* completeRoute or cancelAssignment request changes its status.            *)
C6_TerminalStays ==
  [][\A p \in Procs :
       ( /\ reqs[p].op \in {"startRoute", "scanQRCode", "completeRoute",
                            "cancelAssignment"}
         /\ reqs[p].pc # "done"
         /\ reqs[p].id \in DOMAIN assignments
         /\ assignments[reqs[p].id].status \in {"completed", "cancelled"} )
       => assignments'[reqs[p].id].status = assignments[reqs[p].id].status
    ]_vars

(* C7: after a successful scan the assignment is completed if and only if  *)
(* its completedCheckpoints contains every checkpoint of the route's        *)
(* current list, and in_progress otherwise.                                 *)
C7_CompletedIffCovered ==
  [][\A p \in Procs :
       (At(p, "scanQRCode", "update") /\ reqs'[p].pc = "done")
       => LET a == assignments'[reqs[p].id]
              covered == Range(routes[a.routeId].checkpoints)
                           \subseteq Range(a.completedCheckpoints)
          IN a.status = IF covered THEN "completed" ELSE "in_progress"
    ]_vars

(* C8: with the route's checkpoints unchanged, in-range scans of its       *)
(* checkpoints by the owner succeed in every order; the assignment is       *)
(* in_progress until all are scanned and completed exactly then, with       *)
(* completedCheckpoints the set of the route's checkpoints.                 *)
C8_State ==
  LET a == assignments[1]
      done == Range(a.completedCheckpoints)
      all == Range(routes[a.routeId].checkpoints)
  IN /\ NoDuplicates(a.completedCheckpoints)
     /\ done \subseteq all
     /\ a.status = IF done = all THEN "completed" ELSE "in_progress"

C8_Step ==
  \A p \in Procs :
    LET a == assignments[1]
        c == reqs[p].checkpointId
    IN ( /\ reqs[p].op = "scanQRCode" /\ reqs[p].id = 1
         /\ reqs[p].userId = a.userId
         /\ a.status = "in_progress"
         /\ Includes(routes[a.routeId].checkpoints, c)
         /\ ~Includes(a.completedCheckpoints, c) )
       => /\ reqs[p].pc = "assignment" => reqs'[p].pc = "route"
          /\ reqs[p].pc = "route" => reqs'[p].pc \in {"upload", "create"}
          /\ reqs[p].pc = "create" => reqs'[p].pc = "update"
          /\ reqs[p].pc = "update"
               => /\ reqs'[p].res = "OK"
                  /\ assignments'[1].completedCheckpoints
                       = Append(a.completedCheckpoints, c)

C8_AnyOrder == []C8_State /\ [][C8_Step]_vars

C8_Witness ==
  /\ assignments[1].status = "completed"
  /\ assignments[1].completedCheckpoints = <<3, 1, 2>>

(* C9: two scan requests for the same checkpoint of one assignment never   *)
(* both succeed: the checkpoint is once in completedCheckpoints and has     *)
(* one CheckpointScan row.                                                  *)
C9_NoDoubleScan ==
  /\ \A p, q \in Procs :
       (p # q /\ FinishedWith(p, "scanQRCode", "OK")
        /\ FinishedWith(q, "scanQRCode", "OK") /\ reqs[p].id = reqs[q].id)
       => reqs[p].checkpointId # reqs[q].checkpointId
  /\ \A i \in DOMAIN assignments :
       NoDuplicates(assignments[i].completedCheckpoints)
  /\ \A i, j \in DOMAIN scans :
       (i # j /\ scans[i].routeAssignmentId = scans[j].routeAssignmentId)
       => scans[i].checkpointId # scans[j].checkpointId

(* C10: when two scans of different checkpoints of one assignment both     *)
(* succeed, completedCheckpoints contains both ids, and the assignment is   *)
(* completed once every checkpoint of the route has been scanned.           *)
C10_NoLostUpdate ==
  \A p, q \in Procs :
    (p # q /\ FinishedWith(p, "scanQRCode", "OK")
     /\ FinishedWith(q, "scanQRCode", "OK") /\ reqs[p].id = reqs[q].id
     /\ reqs[p].checkpointId # reqs[q].checkpointId)
    => LET a == assignments[reqs[p].id]
       IN /\ Includes(a.completedCheckpoints, reqs[p].checkpointId)
          /\ Includes(a.completedCheckpoints, reqs[q].checkpointId)
          /\ (\A c \in Range(routes[a.routeId].checkpoints) :
                \E i \in DOMAIN scans : scans[i].checkpointId = c)
               => a.status = "completed"
(* C11: a scan of a checkpoint of the route that is already in the         *)
(* assignment's completedCheckpoints is answered AlreadyScanned and leaves   *)
(* completedCheckpoints (no duplicate entry), the status, the progress (the  *)
(* route's list and completedCheckpoints) and the CheckpointScan rows        *)
(* unchanged.                                                                *)
C11_Step ==
  \A p \in Procs :
    ( /\ At(p, "scanQRCode", "route")
      /\ Includes(routes[assignments[reqs[p].id].routeId].checkpoints,
                  reqs[p].checkpointId)
      /\ Includes(assignments[reqs[p].id].completedCheckpoints,
                  reqs[p].checkpointId) )
    => /\ reqs'[p].pc = "done"
       /\ reqs'[p].res = "AlreadyScanned"
       /\ UNCHANGED <<assignments, scans, routes>>

C11_AlreadyScanned ==
  /\ [](\A i \in DOMAIN assignments :
          NoDuplicates(assignments[i].completedCheckpoints))
  /\ [][C11_Step]_vars

C11_Witness ==
  /\ FinishedWith(1, "scanQRCode", "AlreadyScanned")
  /\ Includes(assignments[1].completedCheckpoints, reqs[1].checkpointId)
  /\ \E i \in DOMAIN scans : scans[i].checkpointId = reqs[1].checkpointId

(* C12: a scan request that carries every field is checked in the order    *)
(* position, QR payload, checkpoint exists and active, geofence distance,    *)
(* assignment (exists, owned by userId, active, in_progress), route exists,  *)
(* checkpoint in route, not already scanned; its answer is the error of the  *)
(* first of these checks that fails, whichever others fail with it, and it   *)
(* is not an error of these checks when none fails.                          *)
FirstFailedCheck(req) ==
  LET c == req.checkpointId
      id == req.id
  IN IF req.position = "invalid" THEN "InvalidPosition"
     ELSE IF req.qr = "malformed" THEN "MalformedQRCode"
     ELSE IF c \notin DOMAIN checkpoints \/ ~checkpoints[c].isActive
       THEN "CheckpointNotFound"
     ELSE IF req.distance > Metres(checkpoints[c].scanRadius)
       THEN "OutOfRange"
     ELSE IF id \notin DOMAIN assignments
             \/ assignments[id].userId # req.userId
             \/ ~assignments[id].isActive
             \/ assignments[id].status # "in_progress"
       THEN "NoActiveAssignment"
     ELSE IF assignments[id].routeId \notin DOMAIN routes
       THEN "RouteNotFound"
     ELSE IF c \notin Range(routes[assignments[id].routeId].checkpoints)
       THEN "CheckpointNotInRoute"
     ELSE IF c \in Range(assignments[id].completedCheckpoints)
       THEN "AlreadyScanned"
     ELSE "none"

C12_Step ==
  \A p \in Procs :
    ( /\ reqs'[p].op = "scanQRCode" /\ reqs'[p].pc = "done"
      /\ reqs'[p] # reqs[p]
      /\ reqs'[p].fields = "present" )
    => LET failed == FirstFailedCheck(reqs'[p])
       IN IF failed # "none"
            THEN reqs'[p].res = failed
            ELSE reqs'[p].res \in {"OK", "MediaUploadFailed"}

C12_ValidationOrder == [][C12_Step]_vars

(* a request failing the geofence, the assignment and the membership check   *)
(* at once, and one whose checkpoint was scanned and then left the route     *)
C12_Witness ==
  /\ FinishedWith(1, "scanQRCode", "OutOfRange")
  /\ reqs[1].id \in DOMAIN assignments
  /\ reqs[1].userId # assignments[reqs[1].id].userId
  /\ reqs[1].checkpointId \in DOMAIN checkpoints
  /\ reqs[1].checkpointId
       \notin Range(routes[assignments[reqs[1].id].routeId].checkpoints)
  /\ reqs[1].checkpointId
       \in Range(assignments[reqs[1].id].completedCheckpoints)

(* C13: a scan, by the owner of an in_progress assignment, of an existing   *)
(* active checkpoint that is not in the route's checkpoint list.             *)
C13_NotInRouteScan(req) ==
  /\ req.op = "scanQRCode" /\ req.pc = "done"
  /\ req.fields = "present" /\ req.position = "valid"
  /\ req.qr = "checkpoint"
  /\ req.checkpointId \in DOMAIN checkpoints
  /\ checkpoints[req.checkpointId].isActive
  /\ req.id \in DOMAIN assignments
  /\ assignments[req.id].userId = req.userId
  /\ assignments[req.id].isActive
  /\ assignments[req.id].status = "in_progress"
  /\ assignments[req.id].routeId \in DOMAIN routes
  /\ req.checkpointId
       \notin Range(routes[assignments[req.id].routeId].checkpoints)

(* C13 as stated: such a scan is answered CheckpointNotInRoute whether the  *)
(* position is inside or outside the checkpoint's scan radius.               *)
C13_NotInRouteAnyDistance ==
  [][\A p \in Procs :
       (reqs'[p] # reqs[p] /\ C13_NotInRouteScan(reqs'[p]))
       => reqs'[p].res = "CheckpointNotInRoute"]_vars

(* C13 amended: such a scan is answered CheckpointNotInRoute when the       *)
(* position is within the checkpoint's scan radius, and OutOfRange when it   *)
(* is farther away.                                                          *)
C13_NotInRouteWithinRadius ==
  [][\A p \in Procs :
       (reqs'[p] # reqs[p] /\ C13_NotInRouteScan(reqs'[p]))
       => reqs'[p].res =
            IF reqs'[p].distance
                 <= Metres(checkpoints[reqs'[p].checkpointId].scanRadius)
              THEN "CheckpointNotInRoute"
              ELSE "OutOfRange"]_vars

C13_Witness ==
  /\ C13_NotInRouteScan(reqs[1])
  /\ reqs[1].res = "CheckpointNotInRoute"
  /\ reqs[1].distance = Metres(checkpoints[reqs[1].checkpointId].scanRadius)

(* C14: a scan request that fails one of the eight validation checks        *)
(* writes nothing: every step of the handler up to and including the step    *)
(* that answers with a validation error leaves the CheckpointScan rows and   *)
(* the RouteAssignment rows as they were, and a request that has written     *)
(* its CheckpointScan row is never answered with an error.                   *)
C14_ValidationErrors ==
  {"InvalidPosition", "MalformedQRCode", "CheckpointNotFound", "OutOfRange",
   "NoActiveAssignment", "RouteNotFound", "CheckpointNotInRoute",
   "AlreadyScanned"}

C14_Step ==
  \A p \in Procs :
    (reqs'[p].op = "scanQRCode" /\ reqs'[p] # reqs[p])
    => /\ (reqs'[p].pc \in {"assignment", "route", "upload", "create"}
           \/ reqs'[p].res \in C14_ValidationErrors)
            => UNCHANGED <<assignments, scans>>
       /\ reqs'[p].res \in C14_ValidationErrors
            => reqs[p].pc \notin {"create", "update"}

C14_FailedScanWritesNothing == [][C14_Step]_vars

C14_Witness ==
  /\ FinishedWith(1, "scanQRCode", "NoActiveAssignment")
  /\ reqs[1].id \in DOMAIN assignments
  /\ assignments[reqs[1].id].status = "cancelled"
  /\ assignments = ChecksSeed
  /\ Len(scans) = 2

(* C15: when storing an attached file fails in a scan that passed every     *)
(* validation check, the scan is answered MediaUploadFailed and neither a    *)
(* CheckpointScan row is created nor the assignment modified; the same       *)
(* request still passes every validation check afterwards, and a request     *)
(* whose files are stored goes on to write its row and to succeed.           *)
C15_Step ==
  \A p \in Procs :
    (At(p, "scanQRCode", "upload") /\ reqs'[p] # reqs[p])
    => \/ /\ reqs'[p].pc = "done"
          /\ reqs'[p].res = "MediaUploadFailed"
          /\ UNCHANGED <<assignments, scans>>
          /\ FirstFailedCheck(reqs'[p]) = "none"
       \/ /\ reqs'[p].pc = "create"
          /\ UNCHANGED <<assignments, scans>>

C15_Retry ==
  \A p \in Procs :
    (reqs[p].op = "scanQRCode" /\ reqs[p].files /\ reqs'[p] # reqs[p])
    => /\ reqs[p].pc = "create"
            => reqs'[p].pc = "update" /\ Len(scans') = Len(scans) + 1
       /\ reqs[p].pc = "update"
            => /\ reqs'[p].res = "OK"
               /\ Includes(assignments'[reqs[p].id].completedCheckpoints,
                           reqs[p].checkpointId)

C15_UploadFailure ==
  /\ [](\A p \in Procs :
          FinishedWith(p, "scanQRCode", "MediaUploadFailed")
            => FirstFailedCheck(reqs[p]) = "none")
  /\ [][C15_Step /\ C15_Retry]_vars

C15_Witness ==
  /\ FinishedWith(1, "scanQRCode", "MediaUploadFailed")
  /\ FirstFailedCheck(reqs[1]) = "none"
  /\ Len(scans) = 1
  /\ Len(assignments[1].completedCheckpoints) = 1

(* C16: in every reachable state each assignment's completedCheckpoints is  *)
(* a subset of the current checkpoint list of its route.                     *)
C16_CompletedSubsetOfRoute ==
  \A i \in DOMAIN assignments :
    assignments[i].routeId \in DOMAIN routes
      => Range(assignments[i].completedCheckpoints)
           \subseteq Range(routes[assignments[i].routeId].checkpoints)

(* C17: an assignment's completedCheckpoints changes only through a         *)
(* successful scan by the assignment's own user while the assignment is      *)
(* active and in_progress, and each change adds exactly the scanned          *)
(* checkpoint id, removing none; a scan against an assignment that is not    *)
(* in_progress, is soft-deleted or belongs to another user is answered       *)
(* NoActiveAssignment and changes nothing.                                   *)
C17_Step ==
  /\ \A i \in DOMAIN assignments :
       assignments'[i].completedCheckpoints
           # assignments[i].completedCheckpoints
       => \E p \in Procs :
            /\ At(p, "scanQRCode", "update")
            /\ reqs'[p].res = "OK"
            /\ reqs[p].id = i
            /\ reqs[p].userId = assignments[i].userId
            /\ assignments[i].isActive
            /\ assignments[i].status = "in_progress"
            /\ assignments'[i].completedCheckpoints
                 = Append(assignments[i].completedCheckpoints,
                          reqs[p].checkpointId)
  /\ \A p \in Procs :
       ( /\ At(p, "scanQRCode", "assignment")
         /\ reqs'[p] # reqs[p]
         /\ reqs[p].id \in DOMAIN assignments
         /\ \/ assignments[reqs[p].id].status # "in_progress"
            \/ ~assignments[reqs[p].id].isActive
            \/ assignments[reqs[p].id].userId # reqs[p].userId )
       => /\ reqs'[p].res = "NoActiveAssignment"
          /\ UNCHANGED <<assignments, scans>>

C17_OnlyScansAppend == [][C17_Step]_vars

(* C18: startRoute succeeds only on an active assignment whose status is    *)
(* assigned, moving it to in_progress and leaving completedCheckpoints as    *)
(* it was; on an assignment that is in_progress, completed or cancelled it   *)
(* fails and leaves the row (status, startDate, notes) unchanged.            *)
C18_Step ==
  \A p \in Procs :
    /\ (Free(p) /\ reqs'[p].op = "startRoute" /\ reqs'[p] # reqs[p])
       => LET id == reqs'[p].id
              startable == /\ id \in DOMAIN assignments
                           /\ assignments[id].isActive
                           /\ assignments[id].status = "assigned"
          IN /\ UNCHANGED assignments
             /\ IF startable
                  THEN reqs'[p].pc = "update"
                  ELSE reqs'[p].pc = "done" /\ reqs'[p].res # "OK"
    /\ (At(p, "startRoute", "update") /\ reqs'[p] # reqs[p])
       => LET id == reqs[p].id
          IN /\ assignments[id].isActive
             /\ assignments[id].status = "assigned"
             /\ reqs'[p].res = "OK"
             /\ assignments'[id].status = "in_progress"
             /\ assignments'[id].startDate = "start_time"
             /\ assignments'[id].completedCheckpoints
                  = assignments[id].completedCheckpoints
             /\ \A j \in DOMAIN assignments \ {id} :
                  assignments'[j] = assignments[j]

C18_StartRoute == [][C18_Step]_vars

(* started again after a scan and a reset of the status to assigned *)
C18_Witness ==
  /\ FinishedWith(1, "startRoute", "OK")
  /\ assignments[1].status = "in_progress"
  /\ Len(assignments[1].completedCheckpoints) = 1

(* C19: cancelAssignment succeeds only from assigned or in_progress, moving  *)
(* the assignment to cancelled and setting endDate; on an assignment that    *)
(* is already cancelled, or completed, it is answered InvalidStateTransition *)
(* and leaves the row (status, endDate, notes) unchanged.                    *)
C19_Step ==
  \A p \in Procs :
    /\ (Free(p) /\ reqs'[p].op = "cancelAssignment" /\ reqs'[p] # reqs[p])
       => LET id == reqs'[p].id
              found == id \in DOMAIN assignments /\ assignments[id].isActive
          IN /\ UNCHANGED assignments
             /\ (found /\ assignments[id].status \in {"assigned", "in_progress"})
                  => reqs'[p].pc = "update"
             /\ (found /\ assignments[id].status \in {"cancelled", "completed"})
                  => /\ reqs'[p].pc = "done"
                     /\ reqs'[p].res = "InvalidStateTransition"
             /\ ~found => reqs'[p].pc = "done" /\ reqs'[p].res # "OK"
    /\ (At(p, "cancelAssignment", "update") /\ reqs'[p] # reqs[p])
       => LET id == reqs[p].id
          IN /\ assignments[id].status \in {"assigned", "in_progress"}
             /\ reqs'[p].res = "OK"
             /\ assignments'[id].status = "cancelled"
             /\ assignments'[id].endDate = "now"

C19_CancelAssignment == [][C19_Step]_vars

C19_Witness ==
  /\ FinishedWith(1, "cancelAssignment", "InvalidStateTransition")
  /\ assignments[1].status = "cancelled"
  /\ assignments[1].endDate = "now"
  /\ assignments[1].notes = "cancelled"

(* C20: completeRoute on an assignment with fewer completed checkpoints     *)
(* than its route has is, without forceComplete, answered                    *)
(* INCOMPLETE_CHECKPOINTS with remaining = total - completed and leaves the  *)
(* assignment unchanged; with forceComplete it succeeds, sets the status to  *)
(* completed and sets endDate.                                               *)
C20_Step ==
  \A p \in Procs :
    /\ (Free(p) /\ reqs'[p].op = "completeRoute" /\ reqs'[p] # reqs[p])
       => LET id == reqs'[p].id
          IN /\ UNCHANGED assignments
             /\ ( /\ id \in DOMAIN assignments
                  /\ assignments[id].isActive
                  /\ assignments[id].status # "completed" )
                  => reqs'[p].pc = "route"
    /\ (At(p, "completeRoute", "route") /\ reqs'[p] # reqs[p])
       => LET a == assignments[reqs[p].id]
              total == Len(routes[a.routeId].checkpoints)
              completed == Len(a.completedCheckpoints)
          IN /\ UNCHANGED assignments
             /\ completed < total
                  => IF reqs[p].forceComplete
                       THEN reqs'[p].pc = "update"
                       ELSE /\ reqs'[p].pc = "done"
                            /\ reqs'[p].res = "INCOMPLETE_CHECKPOINTS"
                            /\ reqs'[p].remaining = total - completed
    /\ (At(p, "completeRoute", "update") /\ reqs'[p] # reqs[p])
       => /\ reqs'[p].res = "OK"
          /\ assignments'[reqs[p].id].status = "completed"
          /\ assignments'[reqs[p].id].endDate = "now"
          /\ assignments'[reqs[p].id].completedCheckpoints
               = assignments[reqs[p].id].completedCheckpoints

C20_CompleteRoute == [][C20_Step]_vars

(* two of three checkpoints scanned, completion refused with one remaining  *)
C20_Witness ==
  /\ FinishedWith(1, "completeRoute", "INCOMPLETE_CHECKPOINTS")
  /\ reqs[1].remaining = 1
  /\ Len(assignments[1].completedCheckpoints) = 2
  /\ Len(routes[1].checkpoints) = 3
  /\ assignments[1].status = "in_progress"

(* C21: assignRoute for a (user, route) pair that already has an active     *)
(* assignment in assigned or in_progress is answered USER_ROUTE_DUPLICATE,   *)
(* not another error, and creates no second assignment.                      *)
C21_DuplicateUserRoute ==
  [][\A p \in Procs :
       ( /\ reqs[p].op = "assignRoute" /\ reqs[p].pc # "done"
         /\ reqs'[p].pc = "done"
         /\ UserRouteHolders(assignments, reqs[p].userId, reqs[p].routeId)
              # {} )
       => /\ reqs'[p].res = "USER_ROUTE_DUPLICATE"
          /\ assignments' = assignments
    ]_vars

(* C22: deleteAssignment on an in_progress assignment is answered           *)
(* CannotDeleteInProgress and leaves it active; on an active assignment in   *)
(* any other status it only turns the active flag off, leaving status and    *)
(* completedCheckpoints unchanged.                                           *)
C22_Step ==
  \A p \in Procs :
    /\ (Free(p) /\ reqs'[p].op = "deleteAssignment" /\ reqs'[p] # reqs[p])
       => LET id == reqs'[p].id
              found == id \in DOMAIN assignments /\ assignments[id].isActive
          IN /\ UNCHANGED assignments
             /\ (found /\ assignments[id].status = "in_progress")
                  => /\ reqs'[p].pc = "done"
                     /\ reqs'[p].res = "CannotDeleteInProgress"
             /\ (found /\ assignments[id].status # "in_progress")
                  => reqs'[p].pc = "update"
    /\ (At(p, "deleteAssignment", "update") /\ reqs'[p] # reqs[p])
       => /\ assignments[reqs[p].id].status # "in_progress"
          /\ reqs'[p].res = "OK"
          /\ assignments' =
               [assignments EXCEPT ![reqs[p].id].isActive = FALSE]

C22_DeleteAssignment == [][C22_Step]_vars

(* a completed assignment with a scanned checkpoint, soft-deleted *)
C22_Witness ==
  /\ FinishedWith(1, "deleteAssignment", "OK")
  /\ ~assignments[1].isActive
  /\ assignments[1].status = "completed"
  /\ Len(assignments[1].completedCheckpoints) >= 1

(* C23: the CheckpointScan rows only grow: no step changes or removes an    *)
(* existing row; a row is written only by a scan request whose distance      *)
(* passed the geofence check; every row has isValid true and a recorded      *)
(* distance not greater than the scan radius used for the scan.              *)
C23_Step ==
  /\ Len(scans') >= Len(scans)
  /\ \A i \in DOMAIN scans : scans'[i] = scans[i]
  /\ Len(scans') > Len(scans)
       => /\ Len(scans') = Len(scans) + 1
          /\ \E p \in Procs :
               /\ At(p, "scanQRCode", "create")
               /\ reqs'[p] # reqs[p]
               /\ reqs[p].distance
                    <= Metres(scanRadius(checkpoints[reqs[p].checkpointId]))
               /\ scans'[Len(scans')].checkpointId = reqs[p].checkpointId
               /\ scans'[Len(scans')].routeAssignmentId = reqs[p].id
               /\ scans'[Len(scans')].distance = Round(reqs[p].distance)

C23_ScansAppendOnly ==
  /\ [](\A i \in DOMAIN scans :
          scans[i].isValid /\ scans[i].distance <= scans[i].scanRadius)
  /\ [][C23_Step]_vars

(* a row recorded at the radius, and a later scan refused by the geofence   *)
C23_Witness ==
  /\ Len(scans) >= 1
  /\ scans[1].distance = DefaultScanRadius
  /\ FinishedWith(1, "scanQRCode", "OutOfRange")

(* C24: the geofence check accepts a scan exactly when the distance is less  *)
(* than or equal to the checkpoint's scan radius: a distance equal to the    *)
(* radius is accepted, any larger distance is answered OutOfRange with the   *)
(* measured distance (rounded to the metre) and the required radius.         *)
C24_Step ==
  \A p \in Procs :
    ( /\ Free(p) /\ reqs'[p].op = "scanQRCode" /\ reqs'[p] # reqs[p]
      /\ reqs'[p].fields = "present" /\ reqs'[p].position = "valid"
      /\ reqs'[p].qr = "checkpoint"
      /\ reqs'[p].checkpointId \in DOMAIN checkpoints
      /\ checkpoints[reqs'[p].checkpointId].isActive )
    => LET radius == scanRadius(checkpoints[reqs'[p].checkpointId])
       IN IF reqs'[p].distance <= Metres(radius)
            THEN reqs'[p].pc = "assignment"
            ELSE /\ reqs'[p].pc = "done"
                 /\ reqs'[p].res = "OutOfRange"
                 /\ reqs'[p].data = <<Round(reqs'[p].distance), radius>>

C24_GeofenceBoundary == [][C24_Step]_vars

(* a scan from exactly the radius has succeeded *)
C24_Witness ==
  /\ FinishedWith(1, "scanQRCode", "OK")
  /\ reqs[1].distance = Metres(DefaultScanRadius)
  /\ \E i \in DOMAIN scans : scans[i].checkpointId = reqs[1].checkpointId

(* C25: an assignRoute request that fails, for whatever reason, creates no  *)
(* assignment and changes none; a missing user, a missing route and a        *)
(* soft-deleted route are answered UserNotFound, RouteNotFound and           *)
(* RouteInactive; a successful request creates exactly one row, with status  *)
(* assigned and empty completedCheckpoints.                                  *)
C25_Step ==
  \A p \in Procs :
    (reqs'[p].op = "assignRoute" /\ reqs'[p] # reqs[p])
    => LET u == reqs'[p].userId
           r == reqs'[p].routeId
       IN /\ IF reqs'[p].pc = "done" /\ reqs'[p].res = "OK"
               THEN /\ Len(assignments') = Len(assignments) + 1
                    /\ \A i \in DOMAIN assignments :
                         assignments'[i] = assignments[i]
                    /\ assignments'[Len(assignments')].userId = u
                    /\ assignments'[Len(assignments')].routeId = r
                    /\ assignments'[Len(assignments')].status = "assigned"
                    /\ assignments'[Len(assignments')].completedCheckpoints
                         = <<>>
                    /\ assignments'[Len(assignments')].isActive
               ELSE assignments' = assignments
          /\ Free(p)
               => IF u \notin users THEN reqs'[p].res = "UserNotFound"
                  ELSE IF r \notin DOMAIN routes
                    THEN reqs'[p].res = "RouteNotFound"
                  ELSE IF ~routes[r].isActive
                    THEN reqs'[p].res = "RouteInactive"
                  ELSE reqs'[p].pc = "rule1"

C25_AssignRouteFrame == [][C25_Step]_vars

(* a request for a soft-deleted route refused after another one succeeded *)
C25_Witness ==
  /\ FinishedWith(1, "assignRoute", "RouteInactive")
  /\ Len(assignments) = Len(CapSeed) + 1
  /\ assignments[Len(assignments)].status = "assigned"

(* C26: an assignment becomes completed only from in_progress: completeRoute *)
(* never moves an assignment whose status is assigned directly to            *)
(* completed.                                                                *)
C26_CompletedOnlyFromInProgress ==
  [][\A p \in Procs :
       ( /\ At(p, "completeRoute", "update")
         /\ assignments'[reqs[p].id].status = "completed"
         /\ assignments[reqs[p].id].status # "completed" )
       => assignments[reqs[p].id].status = "in_progress"
    ]_vars

(* C27: when cancelAssignment or completeRoute commits between a scan       *)
(* request's read of the in_progress assignment and its write, the scan's    *)
(* write neither changes the terminal status nor adds a checkpoint.          *)
C27_ScanKeepsTerminal ==
  [][\A p \in Procs :
       ( /\ At(p, "scanQRCode", "update")
         /\ reqs[p].assignment.status = "in_progress"
         /\ assignments[reqs[p].id].status \in {"cancelled", "completed"} )
       => /\ assignments'[reqs[p].id].status = assignments[reqs[p].id].status
          /\ assignments'[reqs[p].id].completedCheckpoints
               = assignments[reqs[p].id].completedCheckpoints
    ]_vars

(* C28: in every state with no scan request in flight, the checkpoint ids   *)
(* of an assignment's CheckpointScan rows are exactly the ids in its         *)
(* completedCheckpoints, one row per id, also when the assignment update     *)
(* failed after the row was created.                                         *)
C28_RowsMatchCompleted ==
  (\A p \in Procs : reqs[p].op = "scanQRCode" => Free(p))
  => \A a \in DOMAIN assignments :
       LET rows == {i \in DOMAIN scans : scans[i].routeAssignmentId = a}
       IN /\ {scans[i].checkpointId : i \in rows}
               = Range(assignments[a].completedCheckpoints)
          /\ \A i, j \in rows :
               scans[i].checkpointId = scans[j].checkpointId => i = j

(* C29: every CheckpointScan row's routeId equals the routeId of the        *)
(* assignment its routeAssignmentId names; a request whose routeId does not  *)
(* match the assignment's route produces no row carrying it.                 *)
C29_RowRouteIsAssignmentRoute ==
  \A i \in DOMAIN scans :
    /\ scans[i].routeAssignmentId \in DOMAIN assignments
    /\ scans[i].routeId = assignments[scans[i].routeAssignmentId].routeId

(* C30: in the progress view of an assignment, whatever the order of the    *)
(* scans, exactly one checkpoint is marked as next and it is pending when    *)
(* some checkpoint is pending, and none is marked when none is pending.      *)
C30_ExactlyOneNext ==
  \A a \in DOMAIN assignments :
    assignments[a].routeId \in DOMAIN routes =>
      LET view == enhancedCheckpoints(routes[assignments[a].routeId].checkpoints,
                                      assignments[a].completedCheckpoints)
          pending == {cp \in view : cp.isPending}
          next == {cp \in view : cp.isNext}
      IN IF pending # {}
           THEN Cardinality(next) = 1 /\ next \subseteq pending
           ELSE next = {}

====
